---- MODULE Spec2Model ----
(***************************************************************************)
(* Model of obspy/core/event/dictionary.py: the converter between event    *)
(* objects (Catalog, Event, ...) and plain dictionaries.                   *)
(*                                                                         *)
(* Python values are tagged records:                                       *)
(*   None, PInt, PFloat, PStr   leaves                                     *)
(*   PList, PTuple              sequences (field q)                        *)
(*   PDict                      mappings (field m, a function on strings)  *)
(*   PObj                       an instance: its class, its __dict__ (d)   *)
(*                              and exc, the exception reading it raises   *)
(*                              ("" for none)                              *)
(*   Raise                      an exception leaving a call                *)
(***************************************************************************)
EXTENDS Integers, Sequences, FiniteSets, TLC

VARIABLES
    ev_dict,      \* ev.__dict__: the namespace make_class_map walks
    class_map,    \* _OBSPY_CLASS_MAP
    funcs,        \* _OBSPY_TO_DICT_FUNCS
    builds,       \* per type, how often line 146 stored a new extractor
    call          \* the last call: its arguments, result and effects

vars == <<ev_dict, class_map, funcs, builds, call>>

---------------------------------------------------------------------------
(* Bounds *)

MaxLen == 1
MaxBuilds == 2
MaxExtra == 3

---------------------------------------------------------------------------
(* Python values *)

None == [t |-> "none"]
PInt(n) == [t |-> "int", i |-> n]
PFloat(x) == [t |-> "float", f |-> x]
PStr(x) == [t |-> "str", s |-> x]
PList(x) == [t |-> "list", q |-> x]
PTuple(x) == [t |-> "tuple", q |-> x]
PDict(x) == [t |-> "dict", m |-> x]
PObj(c, x, e) == [t |-> "obj", cls |-> c, d |-> x, exc |-> e]
Raise(e) == [t |-> "raise", exc |-> e]

EmptyMap == [k \in {} |-> None]

IsRaise(x) == x.t = "raise"

\* Python truthiness: `not x`
Falsy(x) ==
    \/ x.t = "none"
    \/ x.t = "int" /\ x.i = 0
    \/ x.t = "str" /\ x.s = ""
    \/ x.t \in {"list", "tuple"} /\ Len(x.q) = 0
    \/ x.t = "dict" /\ DOMAIN x.m = {}

\* The order in which a dict's keys are iterated (insertion order; the
\* dicts of the model are built in this order).
KeyOrder ==
    <<"events", "description", "resource_id", "creation_time", "magnitudes",
      "mag", "mag_errors", "uncertainty", "time", "comment", "extra">>

DictKeys(m) == SelectSeq(KeyOrder, LAMBDA k : k \in DOMAIN m)

---------------------------------------------------------------------------
(* The event classes the converter works on (obspy.core.event, obspy.UTCDateTime).
   A class is named by a string. *)

\* A docstring is a sequence of lines, each split at its colons:
\* "    :param mag: Magnitude value" is <<"    ", "param mag", " Magnitude value">>
\* and "param mag" is the record [word |-> "param", name |-> "mag"].
DocLine(w, n) == [word |-> w, name |-> n]
Text(x) == DocLine("", x)
Param(x) == DocLine("param", x)
Type(x) == DocLine("type", x)

\* The classes that have a docstring; __doc__ of any other class is None
Documented ==
    {"Catalog", "Event", "Magnitude", "QuantityError", "UTCDateTime",
     "ResourceIdentifier", "Undocumented"}

\* cls.__doc__
Doc(cls) ==
    CASE cls = "Catalog" ->
           <<Text("Container for Event objects."),
             Type("events"), Param("events"), Param("description")>>
      [] cls = "Event" ->
           <<Text("Describes a seismic event."),
             Type("resource_id"), Param("resource_id"),
             Type("magnitudes"), Param("magnitudes")>>
      [] cls = "Magnitude" ->
           <<Text("Describes a magnitude."),
             Type("mag"), Param("mag"), Param("mag_errors"),
             Type("creation_time"), Param("creation_time")>>
      [] cls = "QuantityError" ->
           <<Text("Uncertainty of a quantity."),
             Type("uncertainty"), Param("uncertainty")>>
      [] cls = "UTCDateTime" ->
           <<Text("A UTC-based datetime object."),
             Param("args"), Param("precision")>>
      [] cls = "ResourceIdentifier" ->
           <<Text("Unique identifier of a resource."),
             Type("id"), Param("id"), Param("prefix")>>
      [] cls = "Undocumented" ->
           <<Text("A class whose docstring declares no parameter.")>>
      [] OTHER -> <<>>

\* The parameters a class's constructor accepts as keywords
CtorParams(cls) ==
    CASE cls = "Catalog" -> {"events", "description"}
      [] cls = "Event" -> {"resource_id", "magnitudes"}
      [] cls = "Magnitude" -> {"mag", "mag_errors", "creation_time"}
      [] cls = "QuantityError" -> {"uncertainty"}
      [] OTHER -> {}

AutoResourceId == PObj("ResourceIdentifier", [id |-> PStr("smi:local/auto")], "")

\* The attributes for which the constructor replaces a None argument by a
\* default, and that default
Coerced(cls) ==
    CASE cls = "Catalog" -> {"events"}
      [] cls = "Event" -> {"resource_id", "magnitudes"}
      [] OTHER -> {}

Default(cls, p) ==
    CASE p = "resource_id" -> AutoResourceId
      [] p \in {"events", "magnitudes"} -> PList(<<>>)
      [] OTHER -> None

\* cls(kw as keywords): a keyword the class does not declare is a TypeError
Construct(cls, kw) ==
    IF ~(DOMAIN kw \subseteq CtorParams(cls))
    THEN Raise("TypeError")
    ELSE PObj(cls,
              [p \in CtorParams(cls) |->
                 IF p \in DOMAIN kw /\ ~(kw[p] = None /\ p \in Coerced(cls))
                 THEN kw[p] ELSE Default(cls, p)],
              "")

\* str(UTCDateTime) and its inverse, UTCDateTime(str)
TimeStrings == <<"2020-01-01T00:00:00", "2021-06-15T12:30:00">>

FloatStrings == {"4.5", "0.1"}

Timestamp(n) == PObj("UTCDateTime", [ns |-> PInt(n)], "")
ResourceId(x) == PObj("ResourceIdentifier", [id |-> PStr(x)], "")

\* str(obj) for the two classes whose extractor is `lambda x: str(x)`
StrOf(obj) ==
    IF obj.cls = "UTCDateTime" /\ "ns" \in DOMAIN obj.d
    THEN PStr(TimeStrings[obj.d.ns.i])
    ELSE IF obj.cls = "ResourceIdentifier" /\ "id" \in DOMAIN obj.d
    THEN obj.d.id
    ELSE PStr("<" \o obj.cls \o " object>")

\* cls(val) for a value that is not None, a list or a dict
ConstructScalar(cls, val) ==
    CASE cls = "UTCDateTime" ->
           IF val.t = "str" /\ \E n \in DOMAIN TimeStrings : TimeStrings[n] = val.s
           THEN Timestamp(CHOOSE n \in DOMAIN TimeStrings : TimeStrings[n] = val.s)
           ELSE Raise(IF val.t = "str" THEN "ValueError" ELSE "TypeError")
      [] cls = "ResourceIdentifier" ->
           IF val.t = "str" THEN ResourceId(val.s)
           ELSE IF val.t = "none" THEN AutoResourceId
           ELSE Raise("TypeError")
      [] cls = "float" ->
           IF val.t = "float" THEN val
           ELSE IF val.t = "int" THEN PFloat(ToString(val.i) \o ".0")
           ELSE IF val.t = "str"
           THEN IF val.s \in FloatStrings THEN PFloat(val.s) ELSE Raise("ValueError")
           ELSE Raise("TypeError")
      [] OTHER -> Raise("TypeError")

---------------------------------------------------------------------------
(* make_class_map *)

\* F(e), with e computed once, before F uses it
Let(e, F(_)) == CHOOSE r \in {F(v) : v \in {e}} : TRUE

\* Op applied to the elements of s from left to right
RECURSIVE FoldSeq(_, _, _)
FoldSeq(Op(_, _), acc, s) ==
    IF s = <<>> THEN acc
    ELSE Let(Op(acc, Head(s)), LAMBDA v : FoldSeq(Op, v, Tail(s)))

\* d[k] = v
Put(d, k, v) == (k :> v) @@ d

UTC_KEYS == <<"creation_time", "time", "reference">>

\* obspy.core.misc._camel2snake, on the names of the model
_camel2snake(name) ==
    CASE name = "Catalog" -> "catalog"
      [] name = "Event" -> "event"
      [] name = "Magnitude" -> "magnitude"
      [] name = "QuantityError" -> "quantity_error"
      [] name = "ResourceIdentifier" -> "resource_identifier"
      [] name = "Undocumented" -> "undocumented"
      [] name = "Time" -> "time"
      [] name = "MagError" -> "mag_error"
      [] name = "Reference" -> "reference"
      [] name = "Pick" -> "pick"
      [] name = "Origin" -> "origin"
      [] OTHER -> name

\* An entry of ev.__dict__: a name bound to a class (is_type), which may
\* have a _property_dict (has_pd, pd), or to something that is no class.
Entry(n, pd) == [name |-> n, is_type |-> TRUE, has_pd |-> TRUE, pd |-> pd]
PlainClass(n) == [name |-> n, is_type |-> TRUE, has_pd |-> FALSE, pd |-> <<>>]
NotAClass(n) == [name |-> n, is_type |-> FALSE, has_pd |-> FALSE, pd |-> <<>>]
Prop(n, ty) == [name |-> n, type |-> ty, is_enum |-> FALSE]
EnumProp(n) == [name |-> n, type |-> "Enum", is_enum |-> TRUE]

_add_lower_and_plural(out, name, cls) ==
    LET name_lower == _camel2snake(name)
        name_plural == name_lower \o "s"
    IN  Put(Put(out, name_lower, cls), name_plural, cls)

make_class_map(ns) ==
    LET special == FoldSeq(LAMBDA o, x : Put(o, x, "UTCDateTime"),
                           [mag_errors |-> "QuantityError"], UTC_KEYS)
        AddProp(o, p) ==
            IF p.is_enum THEN o ELSE _add_lower_and_plural(o, p.name, p.type)
        AddEntry(o, e) ==
            IF ~e.is_type THEN o
            ELSE _add_lower_and_plural(
                     IF e.has_pd THEN FoldSeq(AddProp, o, e.pd) ELSE o,
                     e.name, e.name)
    IN  FoldSeq(AddEntry, special, ns)

\* obspy.core.event as the model has it
EventNamespace ==
    <<PlainClass("Catalog"),
      Entry("Event", <<Prop("resource_id", "ResourceIdentifier"),
                       EnumProp("event_type")>>),
      Entry("Magnitude", <<Prop("mag", "float"),
                           Prop("mag_errors", "QuantityError"),
                           Prop("creation_time", "UTCDateTime")>>),
      PlainClass("QuantityError"),
      PlainClass("ResourceIdentifier"),
      PlainClass("Undocumented"),
      NotAClass("read_events")>>

---------------------------------------------------------------------------
(* Object to dict: the extractor cache and catalog_to_dict *)

\* An extractor: `lambda x: str(x)` (kind "str") or the closure
\* _getattr_factory(attributes) returns (kind "getattr"). gen tells apart
\* two function objects built for one type: 0 is the one made at import,
\* n > 0 the n-th one line 146 stored.
StrFunc == [kind |-> "str", attributes |-> <<>>, gen |-> 0]
_getattr_factory(attributes, gen) ==
    [kind |-> "getattr", attributes |-> attributes, gen |-> gen]

\* Event._containers + [x[0] for x in Event._properties]
EVENT_ATTRS == <<"magnitudes", "resource_id">>

InitialFuncs ==
    [UTCDateTime |-> StrFunc,
     ResourceIdentifier |-> StrFunc,
     Event |-> _getattr_factory(EVENT_ATTRS, 0)]

\* f(obj). Reading an attribute of an instance whose accessors raise (exc)
\* raises that exception: hasattr lets through all but AttributeError.
Apply(f, obj) ==
    IF f.kind = "str"
    THEN IF obj.exc # "" THEN Raise(obj.exc) ELSE StrOf(obj)
    ELSE IF f.attributes # <<>> /\ obj.exc # ""
    THEN Raise(obj.exc)
    ELSE LET has == {f.attributes[i] : i \in DOMAIN f.attributes} \cap DOMAIN obj.d
             out == [x \in has |-> obj.d[x]]
         IN  IF has = {} THEN None ELSE PDict(out)

\* The names of the ":param" lines of the docstring, or AttributeError
\* when __doc__ is None and has no splitlines
_get_params_from_docs(obj) ==
    IF obj.cls \notin Documented
    THEN Raise("AttributeError")
    ELSE LET params_lines == SelectSeq(Doc(obj.cls), LAMBDA x : x.word = "param")
         IN  PList([i \in DOMAIN params_lines |-> params_lines[i].name])

\* The cache as a call threads it: st = [funcs, builds]
_obj_to_dict(obj, st) ==
    LET Build(params) ==
            IF IsRaise(params)
            THEN [v |-> params, st |-> st]
            ELSE LET n == (IF obj.cls \in DOMAIN st.builds
                           THEN st.builds[obj.cls] ELSE 0) + 1
                     f == _getattr_factory(params.q, n)
                 IN  [v |-> Apply(f, obj),
                      st |-> [funcs |-> Put(st.funcs, obj.cls, f),
                              builds |-> Put(st.builds, obj.cls, n)]]
        Try(hit) ==
            IF ~(IsRaise(hit) /\ hit.exc = "KeyError")
            THEN [v |-> hit, st |-> st]
            ELSE Let(_get_params_from_docs(obj), Build)
    IN  Let(IF obj.cls \in DOMAIN st.funcs
            THEN Apply(st.funcs[obj.cls], obj)
            ELSE Raise("KeyError"),
            Try)

\* catalog_to_dict that returns what _obj_to_dict extracted as it is
RECURSIVE catalog_to_dict_no_recursion(_, _)
catalog_to_dict_no_recursion(obj, st) ==
    IF obj.t \in {"int", "float", "str", "none"}
    THEN [v |-> obj, st |-> st]
    ELSE IF obj.t \in {"list", "tuple"}
    THEN IF Len(obj.q) = 0
         THEN [v |-> obj, st |-> st]
         ELSE LET Step(acc, x) ==
                      IF IsRaise(acc.v) THEN acc
                      ELSE Let(catalog_to_dict_no_recursion(x, acc.st), LAMBDA r :
                               IF IsRaise(r.v) THEN r
                               ELSE [v |-> PList(Append(acc.v.q, r.v)), st |-> r.st])
              IN  FoldSeq(Step, [v |-> PList(<<>>), st |-> st], obj.q)
    ELSE IF obj.t = "dict"
    THEN LET Step(acc, key) ==
                 IF IsRaise(acc.v) THEN acc
                 ELSE Let(catalog_to_dict_no_recursion(obj.m[key], acc.st), LAMBDA r :
                          IF IsRaise(r.v) THEN r
                          ELSE [v |-> PDict(Put(acc.v.m, key, r.v)), st |-> r.st])
         IN  FoldSeq(Step, [v |-> PDict(EmptyMap), st |-> st], DictKeys(obj.m))
    ELSE _obj_to_dict(obj, st)

RECURSIVE catalog_to_dict(_, _)
catalog_to_dict(obj, st) ==
    IF obj.t \in {"int", "float", "str", "none"}
    THEN [v |-> obj, st |-> st]
    ELSE IF obj.t \in {"list", "tuple"}
    THEN IF Len(obj.q) = 0
         THEN [v |-> obj, st |-> st]
         ELSE LET Step(acc, x) ==
                      IF IsRaise(acc.v) THEN acc
                      ELSE Let(catalog_to_dict(x, acc.st), LAMBDA r :
                               IF IsRaise(r.v) THEN r
                               ELSE [v |-> PList(Append(acc.v.q, r.v)), st |-> r.st])
              IN  FoldSeq(Step, [v |-> PList(<<>>), st |-> st], obj.q)
    ELSE IF obj.t = "dict"
    THEN LET Step(acc, key) ==
                 IF IsRaise(acc.v) THEN acc
                 ELSE Let(catalog_to_dict(obj.m[key], acc.st), LAMBDA r :
                          IF IsRaise(r.v) THEN r
                          ELSE [v |-> PDict(Put(acc.v.m, key, r.v)), st |-> r.st])
         IN  FoldSeq(Step, [v |-> PDict(EmptyMap), st |-> st], DictKeys(obj.m))
    ELSE Let(_obj_to_dict(obj, st), LAMBDA r :
             IF IsRaise(r.v) THEN r ELSE catalog_to_dict(r.v, r.st))

---------------------------------------------------------------------------
(* Dict to object: _parse_dict_class, _init_update and dict_to_catalog *)

(* A dict or list is an object the code changes in place, and the input is
   a tree (no dict is reachable twice), so a call is described by what it
   returns together with what the object it was given has become.  Every
   constructor call is logged:
     kind   "kw" for cls(kw as keywords) in _init_update, "scalar" for cls(val),
            "root" for obspy.Catalog(kw as keywords)
     path   the keys and list positions from the top dict to the value
     input  the value as it was given, kw the keyword mapping passed
     ctor   what the constructor returned (or raised)
     ret    what the caller got: ctor after the reset of None attributes *)
CtorCall(kind, cls, path, input, kw, ctor, ret) ==
    [kind |-> kind, cls |-> cls, path |-> path, input |-> input, kw |-> kw,
     ctor |-> ctor, ret |-> ret]

\* The orders in which `for key in class_keys` may walk the set
KeyOrders ==
    {KeyOrder, [i \in DOMAIN KeyOrder |-> KeyOrder[Len(KeyOrder) + 1 - i]]}

RECURSIVE _parse_dict_class(_, _, _, _, _)
RECURSIVE _init_update(_, _, _, _, _, _)

\* Lines 165-171 for one key: acc = [d, calls, exc] is input_dict so far,
\* the constructor calls so far and the exception raised ("" for none).
Resolve(cmap, acc, key, cls, val, path, ord) ==
    LET Elem(a, x) ==
            IF a.exc # "" THEN [a EXCEPT !.after = Append(@, x)]
            ELSE Let(_init_update(cmap, x, cls,
                         path \o <<key, ToString(Len(a.after) + 1)>>,
                         ord, a.calls),
                     LAMBDA r :
                     [out |-> IF IsRaise(r.ret) THEN a.out
                              ELSE Append(a.out, r.ret),
                      after |-> Append(a.after, r.after),
                      calls |-> r.calls,
                      exc |-> IF IsRaise(r.ret) THEN r.ret.exc ELSE ""])
    IN  IF val.t = "list"
        THEN Let(FoldSeq(Elem, [out |-> <<>>, after |-> <<>>,
                                calls |-> acc.calls, exc |-> ""], val.q),
                 LAMBDA r :
                 [d |-> PDict(Put(acc.d.m, key,
                          PList(IF r.exc = "" THEN r.out ELSE r.after))),
                  calls |-> r.calls, exc |-> r.exc])
        ELSE IF val.t = "dict"
        THEN Let(_init_update(cmap, val, cls, path \o <<key>>, ord, acc.calls),
                 LAMBDA r :
                 [d |-> PDict(Put(acc.d.m, key,
                          IF IsRaise(r.ret) THEN r.after ELSE r.ret)),
                  calls |-> r.calls,
                  exc |-> IF IsRaise(r.ret) THEN r.ret.exc ELSE ""])
        ELSE Let(ConstructScalar(cls, val), LAMBDA c :
                 [d |-> IF IsRaise(c) THEN acc.d
                        ELSE PDict(Put(acc.d.m, key, c)),
                  calls |-> Append(acc.calls,
                      CtorCall("scalar", cls, path \o <<key>>, val, None, c, c)),
                  exc |-> IF IsRaise(c) THEN c.exc ELSE ""])

\* _parse_dict_class where `if val is None: continue` is missing
_parse_dict_class_no_skip(cmap, input_dict, path, ord, calls) ==
    LET class_keys == DOMAIN cmap \cap DOMAIN input_dict.m
        Step(acc, key) ==
            IF acc.exc # "" THEN acc
            ELSE Resolve(cmap, acc, key, cmap[key], acc.d.m[key], path, ord)
    IN  Let(FoldSeq(Step, [d |-> input_dict, calls |-> calls, exc |-> ""],
                    SelectSeq(ord, LAMBDA k : k \in class_keys)),
            LAMBDA end :
            [ret |-> IF end.exc # "" THEN Raise(end.exc) ELSE end.d,
             d |-> end.d, calls |-> end.calls])

\* Returns [ret, d, calls]: ret is what the call returns or raises, d is
\* input_dict after the call. cmap is _OBSPY_CLASS_MAP.
_parse_dict_class(cmap, input_dict, path, ord, calls) ==
    LET class_keys == DOMAIN cmap \cap DOMAIN input_dict.m
        Step(acc, key) ==
            IF acc.exc # "" THEN acc
            ELSE LET cls == cmap[key]
                     val == acc.d.m[key]
                 IN  IF val = None THEN acc
                     ELSE Resolve(cmap, acc, key, cls, val, path, ord)
    IN  Let(FoldSeq(Step, [d |-> input_dict, calls |-> calls, exc |-> ""],
                    SelectSeq(ord, LAMBDA k : k \in class_keys)),
            LAMBDA end :
            [ret |-> IF end.exc # "" THEN Raise(end.exc) ELSE end.d,
             d |-> end.d, calls |-> end.calls])

\* _init_update that calls the constructor on input_dict as it was given
\* and resolves the nested values afterwards
_init_update_unparsed(cmap, input_dict, cls, path, ord, calls) ==
    IF Falsy(input_dict)
    THEN [ret |-> input_dict, after |-> input_dict, calls |-> calls]
    ELSE IF input_dict.t # "dict"
    THEN [ret |-> Raise("TypeError"), after |-> input_dict, calls |-> calls]
    ELSE Let(Construct(cls, input_dict.m), LAMBDA obj :
         Let(_parse_dict_class(cmap, input_dict, path, ord,
                 Append(calls,
                     CtorCall("kw", cls, path, input_dict, input_dict, obj, obj))),
             LAMBDA p :
             [ret |-> IF IsRaise(p.ret) THEN p.ret ELSE obj,
              after |-> p.d, calls |-> p.calls]))

\* _init_update without the loop of lines 185-187
_init_update_no_reset(cmap, input_dict, cls, path, ord, calls) ==
    IF Falsy(input_dict)
    THEN [ret |-> input_dict, after |-> input_dict, calls |-> calls]
    ELSE IF input_dict.t # "dict"
    THEN [ret |-> Raise("TypeError"), after |-> input_dict, calls |-> calls]
    ELSE Let(_parse_dict_class(cmap, input_dict, path, ord, calls), LAMBDA p :
             IF IsRaise(p.ret)
             THEN [ret |-> p.ret, after |-> p.d, calls |-> p.calls]
             ELSE Let(Construct(cls, p.d.m), LAMBDA obj :
                      [ret |-> obj, after |-> p.d,
                       calls |-> Append(p.calls,
                           CtorCall("kw", cls, path, input_dict, p.d, obj, obj))]))

\* Returns [ret, after, calls]: after is input_dict after the call.
_init_update(cmap, input_dict, cls, path, ord, calls) ==
    IF Falsy(input_dict)
    THEN [ret |-> input_dict, after |-> input_dict, calls |-> calls]
    ELSE IF input_dict.t # "dict"
    \* set(input_dict) or cls(input_dict as keywords) of no mapping is a TypeError
    THEN [ret |-> Raise("TypeError"), after |-> input_dict, calls |-> calls]
    ELSE LET Init_(p) ==
                 IF IsRaise(p.ret)
                 THEN [ret |-> p.ret, after |-> p.d, calls |-> p.calls]
                 ELSE Let(Construct(cls, p.d.m), LAMBDA obj :
                      LET reset == IF IsRaise(obj) THEN {}
                                   ELSE {attr \in DOMAIN obj.d \cap DOMAIN p.d.m :
                                            p.d.m[attr] = None}
                          ret == IF IsRaise(obj) THEN obj
                                 ELSE [obj EXCEPT !.d = [attr \in DOMAIN obj.d |->
                                           IF attr \in reset THEN None
                                           ELSE obj.d[attr]]]
                      IN  [ret |-> ret, after |-> p.d,
                           calls |-> Append(p.calls,
                               CtorCall("kw", cls, path, input_dict, p.d, obj, ret))])
         IN  Let(_parse_dict_class(cmap, input_dict, path, ord, calls), Init_)

\* catalog_dict used as it is, where a copy was meant
no_copy(x) == [node |-> x, shared |-> TRUE]

\* copy.deepcopy: an equal tree that shares no dict or list with its argument
deepcopy(x) == [node |-> x, shared |-> FALSE]

\* Returns [ret, arg, parsed, calls]: arg is the caller's catalog_dict after
\* the call, parsed what _parse_dict_class returned.
dict_to_catalog(cmap, catalog_dict, inplace, ord) ==
    IF catalog_dict.t # "dict"
    THEN [ret |-> Raise("AssertionError"), arg |-> catalog_dict,
          parsed |-> None, calls |-> <<>>]
    ELSE LET work == IF ~inplace THEN deepcopy(catalog_dict)
                     ELSE [node |-> catalog_dict, shared |-> TRUE]
             Finish(p) ==
                 LET cat == IF IsRaise(p.ret) THEN p.ret
                            ELSE Construct("Catalog", p.d.m)
                 IN  [ret |-> cat,
                      arg |-> IF work.shared THEN p.d ELSE catalog_dict,
                      parsed |-> p.ret,
                      calls |-> IF IsRaise(p.ret) THEN p.calls
                                ELSE Append(p.calls,
                                         CtorCall("root", "Catalog", <<>>,
                                                  catalog_dict, p.d, cat, cat))]
         IN  Let(_parse_dict_class(cmap, work.node, <<>>, ord, <<>>), Finish)

---------------------------------------------------------------------------
(* The objects and dicts the calls are made with *)

SeqsUpTo(S, n) == UNION {[1..k -> S] : k \in 0..n}

QuantityError(u) == PObj("QuantityError", [uncertainty |-> u], "")
Magnitude(mag, errs, ct) ==
    PObj("Magnitude", [mag |-> mag, mag_errors |-> errs, creation_time |-> ct], "")
Event(rid, mags) == PObj("Event", [resource_id |-> rid, magnitudes |-> mags], "")
Catalog(events, desc) ==
    PObj("Catalog", [events |-> events, description |-> desc], "")

Magnitudes ==
    {Magnitude(mag, x[1], x[2]) :
        mag \in {None, PFloat("4.5")},
        x \in {<<None, None>>, <<QuantityError(PFloat("0.1")), Timestamp(1)>>}}

Events ==
    {Event(rid, mags) :
        rid \in {None, ResourceId("smi:local/abc")},
        mags \in {None} \cup {PList(q) : q \in SeqsUpTo(Magnitudes, MaxLen)}}

EmptyEvent == Event(None, None)

\* Catalogs of no event, of one event, and of EmptyEvent followed by one
Catalogs ==
    {Catalog(events, desc) :
        events \in {None, PList(<<>>)} \cup {PList(<<e>>) : e \in Events}
                     \cup {PList(<<EmptyEvent, e>>) : e \in Events},
        desc \in {None, PStr("abc")}}

\* Instances whose attribute access raises, of a class without ":param"
\* lines and of a class without docstring
Raising(obj, e) == [obj EXCEPT !.exc = e]
UndocumentedObj == PObj("Undocumented", [secret |-> PInt(1)], "")
NoDocObj == PObj("NoDoc", [secret |-> PInt(1)], "")

SomeMagnitude == Magnitude(PFloat("4.5"), QuantityError(None), Timestamp(2))

ForwardInputs ==
    Catalogs \cup Magnitudes
    \cup {None, PInt(0), PInt(1), PFloat("4.5"), PStr(""), PStr("abc"),
          PList(<<>>), PTuple(<<>>),
          PList(<<PInt(1), PStr("abc"), None>>),
          PTuple(<<PInt(1), PTuple(<<>>), PList(<<>>)>>),
          PDict(EmptyMap),
          PDict([comment |-> PStr("abc"), extra |-> PTuple(<<SomeMagnitude>>)]),
          SomeMagnitude, Timestamp(1), ResourceId("smi:local/abc"),
          UndocumentedObj, NoDocObj,
          PList(<<UndocumentedObj, SomeMagnitude>>),
          PList(<<SomeMagnitude, NoDocObj>>),
          PDict([extra |-> UndocumentedObj, comment |-> NoDocObj]),
          Raising(Timestamp(1), "KeyError"),
          Raising(Timestamp(1), "ValueError"),
          Raising(SomeMagnitude, "KeyError"),
          Raising(SomeMagnitude, "ValueError"),
          Raising(UndocumentedObj, "KeyError")}

InitialCache == [funcs |-> InitialFuncs, builds |-> EmptyMap]

\* Each catalog with the dict catalog_to_dict makes of it
CatalogDicts ==
    {[g |-> g, m |-> catalog_to_dict(g, InitialCache).v] : g \in Catalogs}

D1(k, v) == PDict(k :> v)
D2(k1, v1, k2, v2) == PDict((k1 :> v1) @@ (k2 :> v2))
EventsOf(e) == D1("events", PList(<<e>>))

\* Dicts no catalog_to_dict call made: wrong values, unknown keys, values
\* of another shape than the class expects
OtherDicts ==
    {PDict(EmptyMap),
     D1("comment", PStr("abc")),
     D1("events", PList(<<PStr("abc")>>)),
     D1("events", PList(<<PDict(EmptyMap), None, PStr("")>>)),
     D1("events", PDict(EmptyMap)),
     D1("events", D1("resource_id", PStr("smi:local/abc"))),
     D1("events", PStr("abc")),
     D2("description", PStr("abc"), "mag_errors", D1("uncertainty", None)),
     D2("description", PInt(1), "time", PStr("2020-01-01T00:00:00")),
     EventsOf(D1("extra", PInt(1))),
     EventsOf(D2("resource_id", PInt(5),
                 "magnitudes", PList(<<D1("mag", PFloat("4.5"))>>))),
     EventsOf(D1("magnitudes", PList(<<D1("mag", PStr("abc"))>>))),
     EventsOf(D1("magnitudes", PList(<<D1("mag", PStr("4.5"))>>))),
     EventsOf(D1("magnitudes", PList(<<D1("mag", PInt(4))>>))),
     EventsOf(D1("magnitudes",
                 PList(<<D2("mag", PFloat("4.5"), "creation_time", PStr("now"))>>))),
     EventsOf(D1("magnitudes",
                 PList(<<D2("mag", PFloat("4.5"), "mag_errors", PDict(EmptyMap))>>))),
     D2("description", D1("time", PStr("2020-01-01T00:00:00")), "events", None),
     D2("description", None,
        "events", PList(<<D1("resource_id", None),
                          D1("magnitudes", PList(<<D1("mag", PStr("abc"))>>))>>))}

ReverseInputs ==
    {x.m : x \in CatalogDicts} \cup OtherDicts \cup {PList(<<>>), None}

---------------------------------------------------------------------------
(* The state machine: the module is imported, then calls come one at a time *)

Idle == [op |-> "none"]

Init ==
    /\ ev_dict = EventNamespace
    /\ class_map = make_class_map(ev_dict)
    /\ funcs = InitialFuncs
    /\ builds = EmptyMap
    /\ call = Idle

CatalogToDict(obj) ==
    /\ call = Idle
    /\ \E r \in {catalog_to_dict(obj, [funcs |-> funcs, builds |-> builds])} :
        /\ \A c \in DOMAIN r.st.builds : r.st.builds[c] <= MaxBuilds
        /\ funcs' = r.st.funcs
        /\ builds' = r.st.builds
        /\ call' = [op |-> "catalog_to_dict", arg |-> obj, before |-> funcs,
                    ret |-> r.v]
        /\ UNCHANGED <<ev_dict, class_map>>

DictToCatalog(catalog_dict, inplace, ord) ==
    /\ call = Idle
    /\ \E r \in {dict_to_catalog(class_map, catalog_dict, inplace, ord)} :
        /\ call' = [op |-> "dict_to_catalog", arg |-> catalog_dict,
                    inplace |-> inplace, ret |-> r.ret, arg_after |-> r.arg,
                    parsed |-> r.parsed, calls |-> r.calls]
        /\ UNCHANGED <<ev_dict, class_map, funcs, builds>>

\* The caller drops what the call returned
Discard ==
    /\ call # Idle
    /\ call' = Idle
    /\ UNCHANGED <<ev_dict, class_map, funcs, builds>>

Next ==
    \/ \E obj \in ForwardInputs : CatalogToDict(obj)
    \/ \E m \in ReverseInputs, inplace \in BOOLEAN, ord \in KeyOrders :
           DictToCatalog(m, inplace, ord)
    \/ Discard

Spec == Init /\ [][Next]_vars

---------------------------------------------------------------------------
(* The import of the module, which runs make_class_map (line 131), over
   namespaces that extend obspy.core.event by further classes *)

ExtraEntries ==
    {PlainClass("Time"),
     PlainClass("MagError"),
     Entry("Reference", <<Prop("creation_time", "float")>>),
     Entry("Pick", <<EnumProp("time"), Prop("phase_hint", "str")>>),
     NotAClass("reference"),
     Entry("Origin", <<Prop("time", "UTCDateTime"), Prop("depth", "float")>>)}

Namespaces ==
    {EventNamespace \o x : x \in
        {q \in SeqsUpTo(ExtraEntries, MaxExtra) :
            \A i, j \in DOMAIN q : i # j => q[i].name # q[j].name}}

InitImport ==
    /\ ev_dict \in Namespaces
    /\ class_map = EmptyMap
    /\ funcs = EmptyMap
    /\ builds = EmptyMap
    /\ call = [op |-> "import"]

ImportModule ==
    /\ call.op = "import"
    /\ class_map' = make_class_map(ev_dict)
    /\ funcs' = InitialFuncs
    /\ call' = Idle
    /\ UNCHANGED <<ev_dict, builds>>

SpecImport == InitImport /\ [][ImportModule]_vars

---------------------------------------------------------------------------
(* Properties *)

IsPrefix(p, q) == Len(p) <= Len(q) /\ SubSeq(q, 1, Len(p)) = p

ToDictReturned == call.op = "catalog_to_dict" /\ ~IsRaise(call.ret)
FromDictCalled == call.op = "dict_to_catalog"

\* The constructor calls _init_update made during the last dict_to_catalog
InitUpdates ==
    IF FromDictCalled
    THEN {i \in DOMAIN call.calls : call.calls[i].kind = "kw"}
    ELSE {}

\* C1 as claimed: dict_to_catalog(catalog_to_dict(g)) is attribute-equal to g
\* for every catalog g, null attributes included.
C1_RoundTrip ==
    FromDictCalled =>
        \A x \in CatalogDicts : call.arg = x.m => call.ret = x.g

\* C1 as amended: dict_to_catalog(catalog_to_dict(g)) has the class of g and
\* the attribute values of g, at every depth, except that an attribute of
\* the catalog itself that is null in g and that the Catalog constructor
\* replaces by a default has that default.
C1_RoundTripUpToRootDefaults ==
    FromDictCalled =>
        \A x \in CatalogDicts : call.arg = x.m =>
            /\ call.ret.t = "obj"
            /\ call.ret.cls = x.g.cls
            /\ DOMAIN call.ret.d = DOMAIN x.g.d
            /\ \A a \in DOMAIN x.g.d :
                  call.ret.d[a] =
                      IF x.g.d[a] = None /\ a \in Coerced(x.g.cls)
                      THEN Default(x.g.cls, a) ELSE x.g.d[a]

\* C1 witness: a catalog came back that holds an event with a null
\* resource_id and a magnitude with a timestamp
C1_Witness ==
    /\ FromDictCalled
    /\ \E x \in CatalogDicts : call.arg = x.m /\ call.ret = x.g
    /\ call.ret.d.events.t = "list"
    /\ \E i \in DOMAIN call.ret.d.events.q :
          LET event == call.ret.d.events.q[i]
          IN  /\ event.t = "obj"
              /\ event.d.resource_id = None
              /\ event.d.magnitudes.t = "list"
              /\ \E n \in DOMAIN event.d.magnitudes.q :
                    /\ event.d.magnitudes.q[n].t = "obj"
                    /\ event.d.magnitudes.q[n].d.creation_time.t = "obj"

\* C2: a dict_to_catalog call with inplace=False leaves the caller's mapping
\* equal at every depth to what it was, whether it returns or raises.
C2_InputUnchanged ==
    (FromDictCalled /\ ~call.inplace) => call.arg_after = call.arg

\* C2 witness: a call with inplace=False that built a nested object in its
\* working copy and then failed in a constructor
C2_Witness ==
    /\ FromDictCalled /\ ~call.inplace
    /\ IsRaise(call.ret)
    /\ \E i, j \in DOMAIN call.calls :
          /\ call.calls[i].kind = "kw" /\ ~IsRaise(call.calls[i].ctor)
          /\ IsRaise(call.calls[j].ctor)

\* The extractor a type has in the cache fs, or the one its docstring gives
ExtractorOf(cls, fs) ==
    IF cls \in DOMAIN fs THEN fs[cls]
    ELSE LET params_lines == SelectSeq(Doc(cls), LAMBDA x : x.word = "param")
         IN  _getattr_factory([i \in DOMAIN params_lines |-> params_lines[i].name], 1)

\* y is x converted rule by rule, with the extractors of the cache fs
RECURSIVE Converted(_, _, _)
Converted(x, y, fs) ==
    CASE x.t \in {"int", "float", "str", "none"} -> y = x
      [] x.t \in {"list", "tuple"} /\ Len(x.q) = 0 -> y = x
      [] x.t \in {"list", "tuple"} /\ Len(x.q) > 0 ->
           /\ y.t = "list"
           /\ Len(y.q) = Len(x.q)
           /\ \A i \in DOMAIN x.q : Converted(x.q[i], y.q[i], fs)
      [] x.t = "dict" ->
           /\ y.t = "dict"
           /\ DOMAIN y.m = DOMAIN x.m
           /\ \A k \in DOMAIN x.m : Converted(x.m[k], y.m[k], fs)
      [] x.t = "obj" ->
           LET extracted == Apply(ExtractorOf(x.cls, fs), x)
           IN  ~IsRaise(extracted) /\ Converted(extracted, y, fs)

\* y holds leaves, sequences and mappings only
RECURSIVE NoTypedObject(_)
NoTypedObject(y) ==
    CASE y.t \in {"int", "float", "str", "none"} -> TRUE
      [] y.t \in {"list", "tuple"} -> \A i \in DOMAIN y.q : NoTypedObject(y.q[i])
      [] y.t = "dict" -> \A k \in DOMAIN y.m : NoTypedObject(y.m[k])
      [] OTHER -> FALSE

\* C3: what catalog_to_dict returns is its argument converted rule by rule
\* (leaf itself, empty sequence itself, sequence element-wise into a list,
\* mapping value-wise on the same keys, typed object by its extracted
\* mapping) and holds no typed object at any depth.
C3_RuleByRule ==
    ToDictReturned =>
        /\ Converted(call.arg, call.ret, call.before)
        /\ NoTypedObject(call.ret)

\* C3 witness: a catalog with a magnitude in an event was converted
C3_Witness ==
    /\ ToDictReturned
    /\ call.arg.t = "obj" /\ call.arg.cls = "Catalog"
    /\ call.ret.t = "dict"
    /\ call.ret.m["events"].t = "list"
    /\ \E i \in DOMAIN call.ret.m["events"].q :
          LET event == call.ret.m["events"].q[i]
          IN  /\ event.t = "dict"
              /\ "magnitudes" \in DOMAIN event.m
              /\ event.m["magnitudes"].t = "list"
              /\ \E n \in DOMAIN event.m["magnitudes"].q :
                    event.m["magnitudes"].q[n].t = "dict"

\* The _parse_dict_class calls of the last dict_to_catalog that returned:
\* the dict given, the dict returned, and the path of the dict
ParseReturns ==
    IF ~FromDictCalled THEN {}
    ELSE {[before |-> call.arg, after |-> call.parsed, path |-> <<>>] :
              x \in IF call.parsed.t = "dict" THEN {1} ELSE {}}
         \cup {[before |-> call.calls[i].input, after |-> call.calls[i].kw,
                path |-> call.calls[i].path] : i \in InitUpdates}

NoCallBelow(path) ==
    \A i \in DOMAIN call.calls : ~IsPrefix(path, call.calls[i].path)

\* C4: when _parse_dict_class returns, the key set is unchanged, a key that is
\* no registry key has its original value and nothing below it was
\* constructed, and a registry key whose value was null is still null with
\* no constructor call for it.
C4_PassThrough ==
    \A r \in ParseReturns :
        /\ DOMAIN r.after.m = DOMAIN r.before.m
        /\ \A k \in DOMAIN r.before.m :
              /\ k \notin DOMAIN class_map =>
                    /\ r.after.m[k] = r.before.m[k]
                    /\ NoCallBelow(r.path \o <<k>>)
              /\ (k \in DOMAIN class_map /\ r.before.m[k] = None) =>
                    /\ r.after.m[k] = None
                    /\ NoCallBelow(r.path \o <<k>>)

\* C4 witness: a returned parse of a dict with a null registry key and, under
\* a key outside the registry, a dict that has a registry key itself
C4_Witness ==
    \E r \in ParseReturns :
        \E k1, k2 \in DOMAIN r.before.m :
            /\ k1 \in DOMAIN class_map /\ r.before.m[k1] = None
            /\ k2 \notin DOMAIN class_map
            /\ r.before.m[k2].t = "dict"
            /\ DOMAIN r.before.m[k2].m \cap DOMAIN class_map # {}

\* C5: over any sequence of calls, the docstring-derived extractor of a type
\* that had no extractor at import is built and stored at most once (every
\* later instance is served from the cache).
C5_BuiltOnce ==
    \A T \in DOMAIN builds \ DOMAIN InitialFuncs : builds[T] <= 1

\* C6: no call removes or rebinds an entry of the extractor cache or of the
\* type registry.
C6_AppendOnly ==
    [][/\ \A T \in DOMAIN funcs : T \in DOMAIN funcs' /\ funcs'[T] = funcs[T]
       /\ \A k \in DOMAIN class_map :
              k \in DOMAIN class_map' /\ class_map'[k] = class_map[k]]_vars

\* The type has no docstring, or a docstring without ":param" line
NoParams(cls) ==
    \/ cls \notin Documented
    \/ \A i \in DOMAIN Doc(cls) : Doc(cls)[i].word # "param"

\* C7: catalog_to_dict of an object whose type has no documentation, or none
\* with parameter lines, returns null and does not raise.
C7_NullNotError ==
    (/\ call.op = "catalog_to_dict"
     /\ call.arg.t = "obj"
     /\ call.arg.exc = ""
     /\ NoParams(call.arg.cls)) => call.ret = None

\* C8: in the map make_class_map returns, creation_time, time and reference
\* are bound to UTCDateTime and mag_errors to QuantityError, whatever the
\* namespace walked.
C8_SeededKeysKept ==
    call.op # "import" =>
        /\ \A i \in DOMAIN UTC_KEYS : class_map[UTC_KEYS[i]] = "UTCDateTime"
        /\ class_map["mag_errors"] = "QuantityError"

\* w is what an earlier constructor call of cls for the value at path returned
BuiltBefore(w, cls, kind, path, i) ==
    /\ ~IsRaise(w)
    /\ \E j \in 1..(i - 1) :
          /\ call.calls[j].kind = kind
          /\ call.calls[j].cls = cls
          /\ call.calls[j].path = path
          /\ call.calls[j].ret = w

\* w is the resolved form of the value v given under a key of class cls
ResolvedForm(v, w, cls, path, i) ==
    CASE v.t = "dict" ->
           IF DOMAIN v.m = {} THEN w = v
           ELSE w.t = "obj" /\ w.cls = cls /\ BuiltBefore(w, cls, "kw", path, i)
      [] v.t = "list" ->
           /\ w.t = "list"
           /\ Len(w.q) = Len(v.q)
           /\ \A n \in DOMAIN v.q :
                 IF Falsy(v.q[n]) THEN w.q[n] = v.q[n]
                 ELSE /\ w.q[n].t = "obj"
                      /\ w.q[n].cls = cls
                      /\ BuiltBefore(w.q[n], cls, "kw", path \o <<ToString(n)>>, i)
      [] OTHER ->
           /\ w = ConstructScalar(cls, v)
           /\ BuiltBefore(w, cls, "scalar", path, i)

\* C9: when _init_update calls a constructor, every registry key of the
\* mapping with a non-null value holds its resolved form (an instance for
\* a non-empty mapping, instances for the non-empty elements of a sequence,
\* cls(v) for a scalar), and every constructor call for a nested value
\* has returned before the call of the enclosing object is made.
C9_BottomUp ==
    /\ \A i \in InitUpdates :
          LET e == call.calls[i]
          IN  \A k \in DOMAIN e.input.m \cap DOMAIN class_map :
                 e.input.m[k] # None =>
                     ResolvedForm(e.input.m[k], e.kw.m[k], class_map[k],
                                  e.path \o <<k>>, i)
    /\ FromDictCalled =>
          \A i, j \in DOMAIN call.calls :
              (/\ call.calls[i].path # call.calls[j].path
               /\ IsPrefix(call.calls[i].path, call.calls[j].path)) => j < i

\* C9 witness: a constructor was called on a mapping that came with a scalar,
\* a mapping and a sequence of mappings under registry keys
C9_Witness ==
    \E i, j \in InitUpdates :
        /\ \E k1, k2 \in DOMAIN call.calls[i].input.m \cap DOMAIN class_map :
              /\ call.calls[i].input.m[k1].t = "dict"
              /\ call.calls[i].kw.m[k1].t = "obj"
              /\ call.calls[i].input.m[k2].t = "str"
        /\ \E k \in DOMAIN call.calls[j].input.m \cap DOMAIN class_map :
              /\ call.calls[j].input.m[k].t = "list"
              /\ \E n \in DOMAIN call.calls[j].kw.m[k].q :
                    call.calls[j].kw.m[k].q[n].t = "obj"

\* C10: on the object _init_update returns, an instance attribute that is a
\* key of the input mapping with value null is null, and every other
\* attribute has the value the constructor gave it.
C10_NullFixup ==
    \A i \in InitUpdates :
        LET e == call.calls[i]
        IN  e.ret.t = "obj" =>
              /\ e.ctor.t = "obj"
              /\ e.ret.cls = e.ctor.cls
              /\ DOMAIN e.ret.d = DOMAIN e.ctor.d
              /\ \A a \in DOMAIN e.ret.d :
                    e.ret.d[a] =
                        IF a \in DOMAIN e.input.m /\ e.input.m[a] = None
                        THEN None ELSE e.ctor.d[a]

\* C10 witness: the constructor replaced a null argument by a default and
\* the returned object has null there, next to an attribute that kept the
\* constructor's value
C10_Witness ==
    \E i \in InitUpdates :
        LET e == call.calls[i]
        IN  /\ e.ret.t = "obj"
            /\ \E a, b \in DOMAIN e.ret.d :
                  /\ a \in DOMAIN e.input.m /\ e.input.m[a] = None
                  /\ e.ctor.d[a] # None
                  /\ e.ret.d[a] = None
                  /\ e.ret.d[b] # None

====
